---------------------------- MODULE Spec2Model ----------------------------
(***************************************************************************)
(* A model of the PaisaPrompt form (src/App.tsx): the App component's      *)
(* state (details, loading, result, error, copiedId), its event handlers   *)
(* (handleInputChange, the two mode buttons, generateOutput,               *)
(* copyToClipboard), the continuation of generateOutput that runs when the *)
(* awaited generateContent call settles, the setTimeout callbacks that     *)
(* reset copiedId, and the render of the results section.                  *)
(*                                                                         *)
(* JavaScript values are records tagged by "kind"; a JSON text is a        *)
(* sequence of tokens, and JSON.parse is a recursive-descent parser over   *)
(* that sequence.  Time is counted in whole seconds.                       *)
(***************************************************************************)
EXTENDS Integers, Sequences, FiniteSets, TLC

VARIABLES
    details,      \* useState<SituationDetails>            (lines 69-83)
    loading,      \* useState(false)                       (line 84)
    result,       \* useState<Result | null>(null)         (line 85)
    error,        \* useState<string | null>(null)         (line 86)
    copiedId,     \* useState<string | null>(null)         (line 87)
    pending,      \* generateContent calls awaiting their response (line 142)
    timers,       \* setTimeout callbacks not yet run      (line 185)
    clipboard,    \* the text last given to navigator.clipboard.writeText
    mounted,      \* the component tree is still rendered (no render threw)
    invocations,  \* history: generateOutput invocations with an amount
    calls,        \* history: generateContent calls issued
    settled       \* history: the call that settled last, with its response

vars == <<details, loading, result, error, copiedId, pending, timers,
          clipboard, mounted, invocations, calls, settled>>

-----------------------------------------------------------------------------
(* Bounds of the model. *)

\* generateOutput invocations with an amount that one run makes.
MaxClicks == 2

\* Most variants in a response the boundary returns.
MaxVariants == 2

\* Most setTimeout callbacks outstanding at once.
MaxTimers == 2

-----------------------------------------------------------------------------
(* JavaScript values. *)

Null == [kind |-> "null"]

Undefined == [kind |-> "undefined"]

Str(s) == [kind |-> "str", s |-> s]

Arr(items) == [kind |-> "arr", items |-> items]

Obj(fields) == [kind |-> "obj", fields |-> fields]

\* o[k] as JavaScript evaluates it on a value that is not null or undefined.
Get(o, k) ==
    IF o.kind = "obj" /\ k \in DOMAIN o.fields THEN o.fields[k] ELSE Undefined

\* The values an `x && ...` or `x || ...` takes for true.
Truthy(v) ==
    /\ v.kind \notin {"null", "undefined"}
    /\ ~(v.kind = "str" /\ v.s = "")

-----------------------------------------------------------------------------
(* Constants of the program. *)

CUSTOM == "Other (Custom)"

DELAY_REASONS ==
    << "Cash flow issues", "Waiting for another payment",
       "Medical/Family emergency", "Technical error in banking",
       "Forgot in busy schedule", "Other (Custom)" >>

PROPOSED_SOLUTIONS ==
    << "Pay 50% now, rest in 1 week", "Clear full amount by next Friday",
       "Need a small discount/waiver", "Requesting extra 15 days",
       "Other (Custom)" >>

AMOUNT_ERROR == "Please enter the amount."

GENERIC_ERROR == "Something went wrong. Please check your inputs and try again."

\* setTimeout(..., 2000), in seconds.
COPY_ACK_SECONDS == 2

InitialDetails ==
    [ mode |-> "collect", amount |-> "", overdue |-> "",
      relationship |-> "Client", channel |-> "WhatsApp",
      language |-> "Hinglish", customerName |-> "", yourName |-> "",
      otherInfo |-> "", delayReason |-> DELAY_REASONS[1],
      proposedSolution |-> PROPOSED_SOLUTIONS[1],
      customReason |-> "", customSolution |-> "" ]

-----------------------------------------------------------------------------
(* JSON texts: sequences of tokens. *)

Punct(c) == [t |-> c, s |-> ""]

StrTok(s) == [t |-> "str", s |-> s]

RECURSIVE Stringify(_)
RECURSIVE StringifyItems(_, _)
RECURSIVE StringifyFields(_, _)

\* The elements items[i..] of an array, separated by commas.
StringifyItems(items, i) ==
    IF i > Len(items) THEN << >>
    ELSE Stringify(items[i])
           \o (IF i < Len(items) THEN << Punct(",") >> ELSE << >>)
           \o StringifyItems(items, i + 1)

\* The members of an object whose keys are `keys`, in some order.
StringifyFields(fields, keys) ==
    IF keys = {} THEN << >>
    ELSE LET k == CHOOSE x \in keys : TRUE
         IN  << StrTok(k), Punct(":") >> \o Stringify(fields[k])
               \o (IF keys # {k} THEN << Punct(",") >> ELSE << >>)
               \o StringifyFields(fields, keys \ {k})

\* The JSON text of a value, as the boundary writes it.
Stringify(v) ==
    CASE v.kind = "null" -> << Punct("null") >>
      [] v.kind = "str"  -> << StrTok(v.s) >>
      [] v.kind = "arr"  ->
            << Punct("[") >> \o StringifyItems(v.items, 1) \o << Punct("]") >>
      [] v.kind = "obj"  ->
            << Punct("{") >> \o StringifyFields(v.fields, DOMAIN v.fields)
              \o << Punct("}") >>

\* What a step of the try block gives: a value (and, in a parse, the position
\* after it), or a throw.
Parsed(v, next) == [ok |-> TRUE, val |-> v, next |-> next]

Thrown == [ok |-> FALSE, val |-> Undefined, next |-> 0]

TokAt(toks, i) == IF i \in 1..Len(toks) THEN toks[i] ELSE Punct("eof")

RECURSIVE ParseValue(_, _)
RECURSIVE ParseElements(_, _, _)
RECURSIVE ParseMembers(_, _, _)

\* The elements of an array from position i, after acc; the "[" is consumed.
ParseElements(toks, i, acc) ==
    LET e == ParseValue(toks, i)
    IN  IF ~e.ok THEN Thrown
        ELSE IF TokAt(toks, e.next) = Punct(",")
             THEN ParseElements(toks, e.next + 1, Append(acc, e.val))
        ELSE IF TokAt(toks, e.next) = Punct("]")
             THEN Parsed(Arr(Append(acc, e.val)), e.next + 1)
        ELSE Thrown

\* The members of an object from position i, after acc; a repeated key keeps
\* its last value.
ParseMembers(toks, i, acc) ==
    IF TokAt(toks, i).t # "str" \/ TokAt(toks, i + 1) # Punct(":")
    THEN Thrown
    ELSE LET m == ParseValue(toks, i + 2)
             fields == (TokAt(toks, i).s :> m.val) @@ acc
         IN  IF ~m.ok THEN Thrown
             ELSE IF TokAt(toks, m.next) = Punct(",")
                  THEN ParseMembers(toks, m.next + 1, fields)
             ELSE IF TokAt(toks, m.next) = Punct("}")
                  THEN Parsed(Obj(fields), m.next + 1)
             ELSE Thrown

\* One JSON value from position i.
ParseValue(toks, i) ==
    LET tok == TokAt(toks, i)
    IN  CASE tok.t = "null" -> Parsed(Null, i + 1)
          [] tok.t = "str"  -> Parsed(Str(tok.s), i + 1)
          [] tok.t = "["    ->
                IF TokAt(toks, i + 1) = Punct("]")
                THEN Parsed(Arr(<< >>), i + 2)
                ELSE ParseElements(toks, i + 1, << >>)
          [] tok.t = "{"    ->
                IF TokAt(toks, i + 1) = Punct("}")
                THEN Parsed(Obj(<< >>), i + 2)
                ELSE ParseMembers(toks, i + 1, << >>)
          [] OTHER -> Thrown

\* JSON.parse(text): the value, or a thrown SyntaxError (ok = FALSE).
JSONParse(toks) ==
    LET p == ParseValue(toks, 1)
    IN  IF p.ok /\ p.next = Len(toks) + 1 THEN p ELSE Thrown

-----------------------------------------------------------------------------
(* The external generation boundary: what ai.models.generateContent can     *)
(* give back.                                                               *)

\* A GeneratedMessage as the schema describes it.
Message(variant, title, content) ==
    Obj([variant |-> Str(variant), title |-> Str(title), content |-> Str(content)])

MessagePool ==
    { Message("Variant A", "Warm", "Namaste ji, ek chhota reminder"),
      Message("Variant B", "Reciprocity", "Hope the work helped you") }

\* Every sequence over S of length at most n.
SeqsUpTo(S, n) == UNION { [1..k -> S] : k \in 0..n }

\* A payload with all four required fields.
SchemaPayload(vs) ==
    Obj([ summary    |-> Str("Payment of 500 is overdue."),
          principles |-> Arr(<< Str("Reciprocity"), Str("Commitment") >>),
          variants   |-> Arr(vs),
          voiceNote  |-> Str("Hello ji") ])

\* The variant lists of at most n messages; neighbours differ, as each variant
\* is asked to be a different framing.
VariantLists(n) ==
    { vs \in SeqsUpTo(MessagePool, n) :
          \A i \in 1..(Len(vs) - 1) : vs[i] # vs[i + 1] }

SchemaPayloads == { SchemaPayload(vs) : vs \in VariantLists(MaxVariants) }

\* Valid JSON that is not of the schema's shape.
OffSchemaPayloads ==
    { Obj(<< >>),
      Obj([summary |-> Str("Payment of 500 is overdue.")]),
      Null }

\* response.text: a string (here its tokens) or undefined.
Text(toks) == [kind |-> "text", toks |-> toks]

\* Texts no JSON.parse accepts: a payload cut short, and two values in a row.
MalformedTexts ==
    { Text(<< Punct("{"), StrTok("summary"), Punct(":") >>),
      Text(<< StrTok("Sorry"), StrTok("I cannot help") >>) }

ResponseTexts ==
    { Text(Stringify(p)) : p \in SchemaPayloads \cup OffSchemaPayloads }
      \cup MalformedTexts \cup { Text(<< >>), Undefined }

\* How an outstanding call settles: a rejected promise, or a response.
Fault == [kind |-> "fault", text |-> Undefined]

Response(text) == [kind |-> "response", text |-> text]

Responses == { Fault } \cup { Response(t) : t \in ResponseTexts }

-----------------------------------------------------------------------------
(* generateOutput's request. *)

\* finalReason without the override: the select's value as it is.
finalReason_NoOverride(d) == d.delayReason

finalReason(d) ==
    IF d.delayReason = CUSTOM THEN d.customReason ELSE d.delayReason

finalSolution(d) ==
    IF d.proposedSolution = CUSTOM THEN d.customSolution ELSE d.proposedSolution

\* `a || b` on strings.
OrElse(a, b) == IF a = "" THEN b ELSE a

Line(label, value) == [label |-> label, value |-> value]

\* The two lines the template adds in negotiate mode, and none otherwise.
NegotiationLines(d) ==
    IF d.mode = "negotiate"
    THEN << Line("Reason for Delay", finalReason(d)),
            Line("Proposed Solution", finalSolution(d)) >>
    ELSE << >>

\* The template literal userPrompt, line by line.
userPrompt(d) ==
    << Line("Mode", d.mode),
       Line("Amount", d.amount),
       Line("Relationship", d.relationship),
       Line("Channel", d.channel),
       Line("Target Language", d.language),
       Line("Customer Name", OrElse(d.customerName, "Customer")),
       Line("Sender Name", OrElse(d.yourName, "Sender")),
       Line("How long overdue", d.overdue) >>
      \o NegotiationLines(d)
      \o << Line("Additional Context", d.otherInfo) >>

languageInstruction(d) ==
    IF d.language = "Hinglish" THEN "Use natural Hinglish"
    ELSE "Use professional, polite, and warm English"

Request(d) ==
    [ model             |-> "gemini-3-flash-preview",
      contents          |-> userPrompt(d),
      systemInstruction |-> languageInstruction(d) ]

\* The values a prompt gives under a label.
Embedded(prompt, label) ==
    { prompt[i].value : i \in { j \in 1..Len(prompt) : prompt[j].label = label } }

-----------------------------------------------------------------------------
(* The render of the results section. *)

\* A value React can render as a child.
RenderableChild(c) == c.kind # "obj"

\* {result && (...)}: the section's expressions evaluate without a throw.
Renderable(r) ==
    Truthy(r) =>
        /\ RenderableChild(Get(r, "summary"))
        /\ Get(r, "principles").kind = "arr"
        /\ \A i \in 1..Len(Get(r, "principles").items) :
               RenderableChild(Get(r, "principles").items[i])
        /\ Get(r, "variants").kind = "arr"
        /\ \A i \in 1..Len(Get(r, "variants").items) :
               LET v == Get(r, "variants").items[i]
               IN  /\ v.kind \notin {"null", "undefined"}
                   /\ RenderableChild(Get(v, "variant"))
                   /\ RenderableChild(Get(v, "title"))
                   /\ RenderableChild(Get(v, "content"))
        /\ RenderableChild(Get(r, "voiceNote"))

\* The variant cards on screen.
Cards ==
    IF mounted /\ Truthy(result) /\ Get(result, "variants").kind = "arr"
    THEN Get(result, "variants").items ELSE << >>

\* `${x}` in a template literal, for a string, null, undefined or an object.
Interpolate(x) ==
    CASE x.kind = "str" -> x.s
      [] x.kind = "null" -> "null"
      [] x.kind = "undefined" -> "undefined"
      [] OTHER -> "[object Object]"

\* VariantId without the card's index.
VariantId_NoIndex(v, i) == Interpolate(Get(v, "variant"))

\* `${v.variant}-${i}`, the key of card i (counted from 0).
VariantId(v, i) == Interpolate(Get(v, "variant")) \o "-" \o ToString(i)

\* TriggerDisabled without the disabled attribute.
TriggerDisabled_Never == FALSE

\* disabled={loading}
TriggerDisabled == loading

\* The Generate button is on screen and can be clicked.
TriggerEnabled == mounted /\ ~TriggerDisabled

\* The input named `name` is on screen.
FieldRendered(name) ==
    CASE name \in {"delayReason", "proposedSolution"} ->
            details.mode = "negotiate"
      [] name = "customReason" ->
            details.mode = "negotiate" /\ details.delayReason = CUSTOM
      [] name = "customSolution" ->
            details.mode = "negotiate" /\ details.proposedSolution = CUSTOM
      [] OTHER -> TRUE

-----------------------------------------------------------------------------
(* The handlers. *)

Init ==
    /\ details = InitialDetails
    /\ loading = FALSE
    /\ result = Null
    /\ error = Null
    /\ copiedId = Null
    /\ pending = << >>
    /\ timers = << >>
    /\ clipboard = Undefined
    /\ mounted = TRUE
    /\ invocations = 0
    /\ calls = 0
    /\ settled = Undefined

\* The state the render after a handler leaves: a throw unmounts the tree.
Rerender == mounted' = (mounted /\ Renderable(result'))

handleInputChange(name, value) ==
    /\ mounted
    /\ FieldRendered(name)
    /\ details' = [details EXCEPT ![name] = value]
    /\ UNCHANGED <<loading, result, error, copiedId, pending, timers,
                   clipboard, mounted, invocations, calls, settled>>

SelectMode(mode) ==
    /\ mounted
    /\ details' = [details EXCEPT !.mode = mode]
    /\ result' = Null
    /\ Rerender
    /\ UNCHANGED <<loading, error, copiedId, pending, timers, clipboard,
                   invocations, calls, settled>>

\* An outstanding call: the request, and its number among the calls made.
Call(serial, request) == [serial |-> serial, request |-> request]

\* generateOutput up to its await: the state reset and the call.
StartGeneration ==
    /\ invocations < MaxClicks
    /\ loading' = TRUE
    /\ error' = Null
    /\ result' = Null
    /\ pending' = Append(pending, Call(calls + 1, Request(details)))
    /\ calls' = calls + 1
    /\ invocations' = invocations + 1
    /\ Rerender
    /\ UNCHANGED <<details, copiedId, timers, clipboard, settled>>

\* RejectEmptyAmount without its return: the function goes on to the call.
RejectEmptyAmount_NoReturn == StartGeneration

\* if (!details.amount) { setError(...); return; }
RejectEmptyAmount ==
    /\ error' = Str(AMOUNT_ERROR)
    /\ UNCHANGED <<details, loading, result, copiedId, pending, timers,
                   clipboard, mounted, invocations, calls, settled>>

generateOutput ==
    /\ TriggerEnabled
    /\ IF details.amount = "" THEN RejectEmptyAmount ELSE StartGeneration

\* response.text || '{}'
TextOrEmptyObject(text) ==
    IF text.kind = "undefined" \/ text.toks = << >>
    THEN << Punct("{"), Punct("}") >>
    ELSE text.toks

\* v with its variants, when it has a list of them, in reverse order.
ReverseVariants(v) ==
    IF Get(v, "variants").kind = "arr"
    THEN LET vs == Get(v, "variants").items
         IN  Obj([v.fields EXCEPT
                    !["variants"] = Arr([k \in 1..Len(vs) |-> vs[Len(vs) + 1 - k]])])
    ELSE v

\* ParseResponse with the variants reordered on the way to the state.
ParseResponse_Reordered(resp) ==
    IF resp.kind = "fault" THEN Thrown
    ELSE LET p == JSONParse(TextOrEmptyObject(resp.text))
         IN  IF p.ok THEN Parsed(ReverseVariants(p.val), p.next) ELSE p

\* What the try block makes of a response: the parsed value, or a throw.
ParseResponse(resp) ==
    IF resp.kind = "fault" THEN Thrown
    ELSE JSONParse(TextOrEmptyObject(resp.text))

\* Settle with a retry: a failed call is issued again instead of reported.
Settle_Retry(i, resp) ==
    /\ i \in 1..Len(pending)
    /\ settled' = [serial |-> pending[i].serial, response |-> resp,
                   mode |-> Embedded(pending[i].request.contents, "Mode")]
    /\ IF ParseResponse(resp).ok
       THEN /\ pending' = SubSeq(pending, 1, i - 1)
                            \o SubSeq(pending, i + 1, Len(pending))
            /\ result' = ParseResponse(resp).val
            /\ loading' = FALSE
            /\ calls' = calls
       ELSE /\ pending' = [pending EXCEPT ![i] = Call(calls + 1, pending[i].request)]
            /\ calls' = calls + 1
            /\ UNCHANGED <<result, loading>>
    /\ Rerender
    /\ UNCHANGED <<details, error, copiedId, timers, clipboard, invocations>>

\* The rest of generateOutput, run when call number i settles with resp.
Settle(i, resp) ==
    /\ i \in 1..Len(pending)
    /\ pending' = SubSeq(pending, 1, i - 1) \o SubSeq(pending, i + 1, Len(pending))
    /\ settled' = [serial |-> pending[i].serial, response |-> resp,
                   mode |-> Embedded(pending[i].request.contents, "Mode")]
    /\ IF mounted
       THEN LET p == ParseResponse(resp)
            IN  /\ result' = IF p.ok THEN p.val ELSE result
                /\ error' = IF p.ok THEN error ELSE Str(GENERIC_ERROR)
                /\ loading' = FALSE
       ELSE UNCHANGED <<result, error, loading>>
    /\ Rerender
    /\ UNCHANGED <<details, copiedId, timers, clipboard, invocations, calls>>

\* A timer as setTimeout holds it; alone records that no other timer was
\* outstanding when it was set.
Timer(alone) == [remaining |-> COPY_ACK_SECONDS, alone |-> alone]

\* The copy button of card i (counted from 0).
copyToClipboard(i) ==
    /\ i \in 0..(Len(Cards) - 1)
    /\ LET v == Cards[i + 1]
       IN  /\ clipboard' = Get(v, "content")
           /\ copiedId' = Str(VariantId(v, i))
           /\ timers' = Append(timers, Timer(timers = << >>))
    /\ UNCHANGED <<details, loading, result, error, pending, mounted,
                   invocations, calls, settled>>

\* () => setCopiedId(null), when its delay has passed.
TimerFire ==
    /\ timers # << >>
    /\ Head(timers).remaining = 0
    /\ timers' = Tail(timers)
    /\ copiedId' = IF mounted THEN Null ELSE copiedId
    /\ UNCHANGED <<details, loading, result, error, pending, clipboard,
                   mounted, invocations, calls, settled>>

\* One second passes; a timer that is due runs first.
Tick ==
    /\ timers # << >>
    /\ \A k \in 1..Len(timers) : timers[k].remaining > 0
    /\ timers' = [k \in 1..Len(timers) |->
                     [timers[k] EXCEPT !.remaining = @ - 1]]
    /\ UNCHANGED <<details, loading, result, error, copiedId, pending,
                   clipboard, mounted, invocations, calls, settled>>

-----------------------------------------------------------------------------
(* Specifications. *)

\* A field edit the user can make.
Edit(name, value) == [name |-> name, value |-> value]

AmountEdits == { Edit("amount", a) : a \in {"", "500"} }

NegotiationEdits ==
    { Edit("delayReason", r) : r \in {DELAY_REASONS[1], CUSTOM} }
      \cup { Edit("customReason", t) : t \in {"", "Flight delay"} }
      \cup { Edit("proposedSolution", s) : s \in {PROPOSED_SOLUTIONS[1], CUSTOM} }
      \cup { Edit("customSolution", t) : t \in {"Pay on Monday", CUSTOM} }

\* The steps of the program with the user's edits drawn from `edits`, the
\* boundary's answers from `responses`, and at most `cap` timers outstanding.
NextOver(edits, responses, cap) ==
    \/ \E e \in edits : handleInputChange(e.name, e.value)
    \/ \E mode \in {"collect", "negotiate"} : SelectMode(mode)
    \/ generateOutput
    \/ \E i \in 1..Len(pending), resp \in responses : Settle(i, resp)
    \/ \E i \in 0..(MaxVariants - 1) : Len(timers) < cap /\ copyToClipboard(i)
    \/ TimerFire
    \/ Tick

\* Generation: every answer of the boundary, one copy acknowledgement at a time.
Next == NextOver(AmountEdits, Responses, 1)

Spec == Init /\ [][Next]_vars

\* The boundary's answers with a full list of variants, and a fault.
FullResponses ==
    { Fault } \cup
    { Response(Text(Stringify(SchemaPayload(vs)))) :
        vs \in { l \in VariantLists(MaxVariants) : Len(l) = MaxVariants } }

\* Copying: overlapping copy acknowledgements.
NextCopy == NextOver({Edit("amount", "500")}, FullResponses, MaxTimers)

SpecCopy == Init /\ [][NextCopy]_vars

\* The boundary's answers with one variant, and a fault.
SingleResponses ==
    { Fault } \cup
    { Response(Text(Stringify(SchemaPayload(vs)))) :
        vs \in { l \in VariantLists(1) : Len(l) = 1 } }

\* Prompt building: the negotiation fields are edited.
NextPrompt ==
    NextOver({Edit("amount", "500")} \cup NegotiationEdits, SingleResponses, 1)

SpecPrompt == Init /\ [][NextPrompt]_vars

-----------------------------------------------------------------------------
(* Properties. *)

\* A step in which an outstanding call settles.
SettleStep == Len(pending') < Len(pending)

\* A step in which a generateContent call is issued.
CallStep == Len(pending') > Len(pending)

\* C1: a result on screen is never stale for the mode: whenever the page
\* holds a non-null result, the call that produced it was built with the mode
\* now selected.
C1_ResultMatchesMode ==
    (mounted /\ result # Null) =>
        (settled # Undefined /\ settled.mode = {details.mode})

\* C2: generateOutput on an empty amount issues no call, sets error to the
\* validation message and leaves loading false.
C2_EmptyAmountRejected ==
    [][ (generateOutput /\ details.amount = "") =>
            /\ calls' = calls
            /\ pending' = pending
            /\ error' = Str(AMOUNT_ERROR)
            /\ loading' = FALSE /\ loading = FALSE ]_vars

\* C2 witness: the validation message is up after an earlier generation, with
\* no call outstanding.
C2_Witness ==
    /\ error = Str(AMOUNT_ERROR)
    /\ details.amount = ""
    /\ calls > 0
    /\ pending = << >>
    /\ ~loading

\* C3: the calls issued are as many as the generateOutput invocations made
\* with an amount, however the calls settled; none is outstanding that was
\* not issued by an invocation.
C3_OneCallPerInvocation ==
    /\ calls = invocations
    /\ Len(pending) <= invocations

\* C3 witness: two invocations, two calls, the last of which failed.
C3_Witness ==
    /\ invocations = 2
    /\ calls = 2
    /\ pending = << >>
    /\ error = Str(GENERIC_ERROR)

\* C4: at most one call is outstanding, and one is exactly when loading.
C4_AtMostOneInFlight ==
    /\ Len(pending) \in {0, 1}
    /\ (Len(pending) = 1) <=> loading

\* C4 witness: a second generation is in flight.
C4_Witness ==
    /\ loading
    /\ Len(pending) = 1
    /\ calls = 2

\* The request of the call issued last.
NewestRequest == pending[Len(pending)].request

\* The value the override rule makes effective for a select and its custom
\* free-text field.
Effective(selected, custom) == IF selected = CUSTOM THEN custom ELSE selected

\* C5 as stated: every call's prompt gives, as its delay reason, exactly
\* customReason when delayReason is the sentinel (and then not the sentinel)
\* and exactly delayReason otherwise; likewise its proposed solution.
C5_EveryRequestEmbedsEffective ==
    [][ CallStep =>
          /\ Embedded(NewestRequest'.contents, "Reason for Delay")
               = { Effective(details.delayReason, details.customReason) }
          /\ Embedded(NewestRequest'.contents, "Proposed Solution")
               = { Effective(details.proposedSolution, details.customSolution) }
          /\ details.delayReason = CUSTOM =>
               CUSTOM \notin Embedded(NewestRequest'.contents, "Reason for Delay")
          /\ details.proposedSolution = CUSTOM =>
               CUSTOM \notin Embedded(NewestRequest'.contents, "Proposed Solution")
      ]_vars

\* C5 amended: in negotiate mode every call's prompt gives exactly the
\* effective delay reason and the effective proposed solution (the sentinel
\* only when it is the custom text itself); in collect mode it gives neither.
C5_NegotiateRequestEmbedsEffective ==
    [][ CallStep =>
          IF details.mode = "negotiate"
          THEN /\ Embedded(NewestRequest'.contents, "Reason for Delay")
                    = { Effective(details.delayReason, details.customReason) }
               /\ Embedded(NewestRequest'.contents, "Proposed Solution")
                    = { Effective(details.proposedSolution, details.customSolution) }
               /\ (details.delayReason = CUSTOM /\ details.customReason # CUSTOM) =>
                    CUSTOM \notin Embedded(NewestRequest'.contents, "Reason for Delay")
               /\ (details.proposedSolution = CUSTOM /\ details.customSolution # CUSTOM) =>
                    CUSTOM \notin Embedded(NewestRequest'.contents, "Proposed Solution")
          ELSE /\ Embedded(NewestRequest'.contents, "Reason for Delay") = {}
               /\ Embedded(NewestRequest'.contents, "Proposed Solution") = {}
      ]_vars

\* C5 witness: a call is outstanding whose prompt carries the custom reason
\* and the custom solution typed in negotiate mode.
C5_Witness ==
    /\ pending # << >>
    /\ Embedded(NewestRequest.contents, "Mode") = {"negotiate"}
    /\ Embedded(NewestRequest.contents, "Reason for Delay") = {"Flight delay"}
    /\ Embedded(NewestRequest.contents, "Proposed Solution") = {"Pay on Monday"}
    /\ details.delayReason = CUSTOM
    /\ details.proposedSolution = CUSTOM

\* The response is a fault, or carries a text that is not valid JSON.
FaultOrInvalidJSON(resp) ==
    \/ resp.kind = "fault"
    \/ /\ resp.kind = "response"
       /\ resp.text.kind = "text"
       /\ ~JSONParse(resp.text.toks).ok

\* C6: when the call throws a fault or returns text that is not valid JSON,
\* the invocation ends with the generic error, a null result and loading
\* false.
C6_FailureGivesGenericError ==
    [][ (SettleStep /\ FaultOrInvalidJSON(settled'.response)) =>
            /\ error' = Str(GENERIC_ERROR)
            /\ result' = Null
            /\ loading' = FALSE ]_vars

\* C6, for faults and for texts that are not empty: the part of the claim
\* the code keeps.
C6_NonEmptyFailureGivesGenericError ==
    [][ ( /\ SettleStep
          /\ FaultOrInvalidJSON(settled'.response)
          /\ settled'.response.text # Text(<< >>) ) =>
            /\ error' = Str(GENERIC_ERROR)
            /\ result' = Null
            /\ loading' = FALSE ]_vars

\* A value with the four fields of Result.
HasResultFields(r) ==
    /\ r.kind = "obj"
    /\ {"summary", "principles", "variants", "voiceNote"} \subseteq DOMAIN r.fields

\* C7: a non-null result is the parsed text of the response to the most
\* recent call, and has the fields summary, principles, variants, voiceNote.
C7_ResultIsParsedResponse ==
    result # Null =>
        /\ settled # Undefined
        /\ settled.serial = calls
        /\ settled.response.kind = "response"
        /\ settled.response.text.kind = "text"
        /\ JSONParse(settled.response.text.toks).ok
        /\ result = JSONParse(settled.response.text.toks).val
        /\ HasResultFields(result)

\* C9: whenever an outstanding call settles, with whatever outcome, loading is
\* false and the generate trigger can be used again.
C9_UsableAfterSettle ==
    [][ SettleStep => (loading' = FALSE /\ TriggerEnabled') ]_vars

\* A value of the schema's shape: the four fields, with lists of strings and
\* of messages.
MatchesSchema(v) ==
    /\ HasResultFields(v)
    /\ DOMAIN v.fields = {"summary", "principles", "variants", "voiceNote"}
    /\ v.fields["summary"].kind = "str"
    /\ v.fields["voiceNote"].kind = "str"
    /\ v.fields["principles"].kind = "arr"
    /\ \A i \in 1..Len(v.fields["principles"].items) :
           v.fields["principles"].items[i].kind = "str"
    /\ v.fields["variants"].kind = "arr"
    /\ \A i \in 1..Len(v.fields["variants"].items) :
           LET m == v.fields["variants"].items[i]
           IN  /\ m.kind = "obj"
               /\ DOMAIN m.fields = {"variant", "title", "content"}
               /\ \A k \in DOMAIN m.fields : m.fields[k].kind = "str"

\* The payloads the boundary can send that are of the schema's shape.
ReturnedSchemaValues ==
    { p \in SchemaPayloads \cup OffSchemaPayloads : MatchesSchema(p) }

\* C10: when the boundary returns the JSON text of a value of the schema's
\* shape, the stored result is that value: the same variants in the same
\* order with the same fields, the same summary, principles and voiceNote.
C10_ResultIsReturnedValue ==
    [][ SettleStep =>
          \A p \in ReturnedSchemaValues :
              settled'.response = Response(Text(Stringify(p))) =>
                  /\ result' = p
                  /\ Len(result'.fields["variants"].items)
                        = Len(p.fields["variants"].items)
                  /\ \A i \in 1..Len(p.fields["variants"].items) :
                        result'.fields["variants"].items[i]
                          = p.fields["variants"].items[i] ]_vars

\* C10 witness: the result holds two different variants in the order returned.
C10_Witness ==
    /\ mounted
    /\ result \in ReturnedSchemaValues
    /\ settled # Undefined
    /\ settled.response = Response(Text(Stringify(result)))
    /\ Len(result.fields["variants"].items) = 2
    /\ result.fields["variants"].items[1] # result.fields["variants"].items[2]

\* The boundary eventually answers a call that is outstanding.
SettleEventually ==
    WF_vars(\E i \in 1..Len(pending), resp \in Responses : Settle(i, resp))

SpecLive == Spec /\ SettleEventually

\* C9, its last sentence: if the outstanding call eventually settles, loading
\* leads to loading being false.
C9_LoadingLeadsToIdle == loading ~> ~loading

\* A step in which a copy button is clicked.
CopyStep == Len(timers') > Len(timers)

\* A step in which a reset timer runs.
TimerStep == Len(timers') < Len(timers)

\* The timer set by the most recent copy is outstanding and not yet due.
NewestCopyWithinDelay ==
    /\ timers # << >>
    /\ timers[Len(timers)].remaining > 0

\* C8 as stated: after any copy, also one made while an earlier copy's timer
\* is outstanding, the indicator stays on for the 2 seconds of its own timer.
C8_IndicatorStaysTwoSeconds ==
    (mounted /\ NewestCopyWithinDelay) => copiedId # Null

\* C8 amended: a copy on card i sets copiedId to that card's variant label
\* and index, and copiedId changes only by a copy or, to null, by a timer.
\* A copy made while no other timer is outstanding keeps its indicator for
\* the 2 seconds of its timer, which starts at 2 and then sets copiedId to
\* null; once no timer is outstanding the indicator is null.
C8_IndicatorUntilEarliestTimer ==
    /\ [][ CopyStep =>
             \E i \in 0..(Len(Cards) - 1) :
                 /\ copiedId' = Str(Cards[i + 1].fields["variant"].s
                                      \o "-" \o ToString(i))
                 /\ timers'[Len(timers')].remaining = COPY_ACK_SECONDS ]_vars
    /\ [][ (copiedId' # copiedId) =>
             (CopyStep \/ (TimerStep /\ copiedId' = Null)) ]_vars
    /\ [][ (TimerStep /\ mounted) =>
             (copiedId' = Null /\ Head(timers).remaining = 0) ]_vars
    /\ []( (mounted /\ Len(timers) = 1 /\ timers[1].alone) => copiedId # Null )
    /\ []( (mounted /\ timers = << >>) => copiedId = Null )

\* C8 witness: a second copy was made one second after a first; the first
\* copy's timer has run and cleared the indicator one second into the second
\* copy's delay.
C8_Witness ==
    /\ mounted
    /\ Len(timers) = 1
    /\ ~timers[1].alone
    /\ timers[1].remaining = 1
    /\ copiedId = Null
    /\ Len(Cards) > 0

\* C11, all but its last clause: while loading, error and result are null;
\* starting a generation clears both, and no step other than the settle of
\* the outstanding call changes either while loading.
C11_QuietWhileLoading ==
    /\ []( loading => (error = Null /\ result = Null) )
    /\ [][ CallStep => (error' = Null /\ result' = Null) ]_vars
    /\ [][ (loading /\ ~SettleStep) =>
             (error' = error /\ result' = result) ]_vars

\* C11: while loading, error and result are null and only the settle of the
\* outstanding call changes them; at that settle exactly one of error and
\* result becomes non-null.
C11_ExactlyOneOutcome ==
    /\ C11_QuietWhileLoading
    /\ [][ (SettleStep /\ loading) =>
             ((error' # Null) /= (result' # Null)) ]_vars

=============================================================================
